---------------------------- MODULE Spec2Model ----------------------------
(***************************************************************************)
(* Model of ComfyUI-Midjourney (src/module/node.py): the job client        *)
(* (MidjourneyAPI.run, MidjourneyAPISubmit.submit, MidjourneyAPIPoll.poll, *)
(* _poll_job_result) and the path extractor                                *)
(* (MidjourneyJSONExtractor.extract).                                      *)
(*                                                                         *)
(* A Python str is a sequence of characters; a character is a one-element  *)
(* TLA+ string.  Names that the code only compares as a whole (keys such   *)
(* as "error", message texts) are single symbols of that alphabet.  The    *)
(* alphabet holds no quote and no backslash inside str values, so no       *)
(* escape sequence is ever produced or read.                               *)
(*                                                                         *)
(* A decoded JSON value is a pair <<tag, payload>>:                        *)
(*   <<"null", 0>>  <<"bool", b>>  <<"int", n>>  <<"str", chars>>          *)
(*   <<"list", sequence of values>>                                        *)
(*   <<"dict", sequence of <<key chars, value>> in insertion order>>       *)
(***************************************************************************)
EXTENDS Integers, Sequences, FiniteSets, TLC

\* ------------------------------------------------------------------ values

Tag(x) == x[1]
Val(x) == x[2]

Null == <<"null", 0>>
BoolV(b) == <<"bool", b>>
IntV(n) == <<"int", n>>
StrV(s) == <<"str", s>>
ListV(xs) == <<"list", xs>>
DictV(ps) == <<"dict", ps>>

IsComposite(x) == Tag(x) \in {"dict", "list"}

\* key in dict
HasKey(d, k) == \E i \in 1..Len(Val(d)) : Val(d)[i][1] = k

\* dict[key]
Item(d, k) == Val(d)[CHOOSE i \in 1..Len(Val(d)) : Val(d)[i][1] = k][2]

\* dict.get(key, default); on a value that is no dict the attribute does not exist
DictGet(d, k, dflt) == IF HasKey(d, k) THEN Item(d, k) ELSE dflt

\* dict[key] = value while decoding: a repeated key keeps its place, takes the last value
DictPut(ps, k, v) ==
    IF \E i \in 1..Len(ps) : ps[i][1] = k
    THEN [i \in 1..Len(ps) |-> IF ps[i][1] = k THEN <<k, v>> ELSE ps[i]]
    ELSE Append(ps, <<k, v>>)

\* ----------------------------------------------------------------- strings

DigitChars == <<"0", "1", "2", "3", "4", "5", "6", "7", "8", "9">>
DigitSet == {DigitChars[i] : i \in 1..Len(DigitChars)}
DigitVal(c) == (CHOOSE i \in 1..Len(DigitChars) : DigitChars[i] = c) - 1
Whitespace == {" ", "\t", "\n", "\r"}

RECURSIVE NatToStr(_)
NatToStr(n) == IF n < Len(DigitChars) THEN <<DigitChars[n + 1]>>
               ELSE NatToStr(n \div Len(DigitChars)) \o <<DigitChars[(n % Len(DigitChars)) + 1]>>

\* str(n) of an int
IntToStr(n) == IF n < 0 THEN <<"-">> \o NatToStr(0 - n) ELSE NatToStr(n)

\* key.isdigit()
IsDigit(s) == s # <<>> /\ \A i \in 1..Len(s) : s[i] \in DigitSet

\* int(key) of an all-digit str
RECURSIVE StrToNat(_)
StrToNat(s) == IF s = <<>> THEN 0
               ELSE StrToNat(SubSeq(s, 1, Len(s) - 1)) * Len(DigitChars) + DigitVal(s[Len(s)])

\* s.strip()
RECURSIVE LStrip(_)
LStrip(s) == IF s # <<>> /\ Head(s) \in Whitespace THEN LStrip(Tail(s)) ELSE s
RECURSIVE RStrip(_)
RStrip(s) == IF s # <<>> /\ s[Len(s)] \in Whitespace THEN RStrip(SubSeq(s, 1, Len(s) - 1)) ELSE s
Strip(s) == RStrip(LStrip(s))

\* s.split(sep): always at least one segment
RECURSIVE SplitFrom(_, _, _, _)
SplitFrom(s, sep, i, cur) ==
    IF i > Len(s) THEN <<cur>>
    ELSE IF s[i] = sep THEN <<cur>> \o SplitFrom(s, sep, i + 1, <<>>)
    ELSE SplitFrom(s, sep, i + 1, Append(cur, s[i]))
Split(s, sep) == SplitFrom(s, sep, 1, <<>>)

RECURSIVE Spaces(_)
Spaces(n) == IF n <= 0 THEN <<>> ELSE <<" ">> \o Spaces(n - 1)

\* ------------------------------------------------------------- json.dumps

Indent == 2

\* json.dumps(x, ensure_ascii=False, indent=2) at nesting level lvl
RECURSIVE DumpsAt(_, _)
RECURSIVE DumpItems(_, _, _, _)
DumpItems(x, i, lvl, isDict) ==
    LET e == Val(x)[i]
        one == IF isDict
               THEN <<"\"">> \o e[1] \o <<"\"", ":", " ">> \o DumpsAt(e[2], lvl + 1)
               ELSE DumpsAt(e, lvl + 1)
        line == <<"\n">> \o Spaces(Indent * (lvl + 1)) \o one
    IN IF i = Len(Val(x)) THEN line ELSE line \o <<",">> \o DumpItems(x, i + 1, lvl, isDict)
DumpsAt(x, lvl) ==
    CASE Tag(x) = "null" -> <<"n", "u", "l", "l">>
      [] Tag(x) = "bool" -> IF Val(x) THEN <<"t", "r", "u", "e">> ELSE <<"f", "a", "l", "s", "e">>
      [] Tag(x) = "int" -> IntToStr(Val(x))
      [] Tag(x) = "str" -> <<"\"">> \o Val(x) \o <<"\"">>
      [] Tag(x) = "list" ->
            IF Val(x) = <<>> THEN <<"[", "]">>
            ELSE <<"[">> \o DumpItems(x, 1, lvl, FALSE) \o <<"\n">> \o Spaces(Indent * lvl) \o <<"]">>
      [] Tag(x) = "dict" ->
            IF Val(x) = <<>> THEN <<"{", "}">>
            ELSE <<"{">> \o DumpItems(x, 1, lvl, TRUE) \o <<"\n">> \o Spaces(Indent * lvl) \o <<"}">>
DumpsIndent(x) == DumpsAt(x, 0)

\* json.dumps(x, ensure_ascii=False): one line, ", " and ": " separators
RECURSIVE DumpsFlat(_)
RECURSIVE FlatItems(_, _, _)
FlatItems(x, i, isDict) ==
    LET e == Val(x)[i]
        one == IF isDict THEN <<"\"">> \o e[1] \o <<"\"", ":", " ">> \o DumpsFlat(e[2])
               ELSE DumpsFlat(e)
    IN IF i = Len(Val(x)) THEN one ELSE one \o <<",", " ">> \o FlatItems(x, i + 1, isDict)
DumpsFlat(x) ==
    CASE Tag(x) = "list" ->
            IF Val(x) = <<>> THEN <<"[", "]">> ELSE <<"[">> \o FlatItems(x, 1, FALSE) \o <<"]">>
      [] Tag(x) = "dict" ->
            IF Val(x) = <<>> THEN <<"{", "}">> ELSE <<"{">> \o FlatItems(x, 1, TRUE) \o <<"}">>
      [] OTHER -> DumpsAt(x, 0)

\* ------------------------------------------------------------- json.loads

\* a decoding step: ok, the value, the index after it; not ok is JSONDecodeError
Fail == [ok |-> FALSE, val |-> Null, next |-> 0]
Got(v, n) == [ok |-> TRUE, val |-> v, next |-> n]

RECURSIVE SkipWs(_, _)
SkipWs(s, i) == IF i <= Len(s) /\ s[i] \in Whitespace THEN SkipWs(s, i + 1) ELSE i

StartsWith(s, i, lit) ==
    /\ i + Len(lit) - 1 <= Len(s)
    /\ \A k \in 1..Len(lit) : s[i + k - 1] = lit[k]

\* the index of the closing quote of a string opened before i, 0 if none
RECURSIVE CloseQuote(_, _)
CloseQuote(s, i) ==
    IF i > Len(s) \/ s[i] \in {"\n", "\r", "\t"} THEN 0
    ELSE IF s[i] = "\"" THEN i
    ELSE CloseQuote(s, i + 1)

RECURSIVE DigitsEnd(_, _)
DigitsEnd(s, i) == IF i <= Len(s) /\ s[i] \in DigitSet THEN DigitsEnd(s, i + 1) ELSE i

\* -?(0|[1-9][0-9]*) at i
ScanNumber(s, i) ==
    LET neg == i <= Len(s) /\ s[i] = "-"
        b == IF neg THEN i + 1 ELSE i
        e == IF b <= Len(s) /\ s[b] = "0" THEN b + 1 ELSE DigitsEnd(s, b)
        n == StrToNat(SubSeq(s, b, e - 1))
    IN IF e = b THEN Fail ELSE Got(IntV(IF neg THEN 0 - n ELSE n), e)

RECURSIVE ScanValue(_, _)
RECURSIVE ScanElems(_, _, _)
RECURSIVE ScanMembers(_, _, _)
\* the elements of an array, i at the start of the next element
ScanElems(s, i, acc) ==
    LET r == ScanValue(s, i)
        j == SkipWs(s, r.next)
    IN IF ~r.ok \/ j > Len(s) THEN Fail
       ELSE IF s[j] = "]" THEN Got(ListV(Append(acc, r.val)), j + 1)
       ELSE IF s[j] = "," THEN ScanElems(s, SkipWs(s, j + 1), Append(acc, r.val))
       ELSE Fail
\* the members of an object, i at the quote that opens the next key
ScanMembers(s, i, acc) ==
    IF i > Len(s) \/ s[i] # "\"" THEN Fail
    ELSE LET q == CloseQuote(s, i + 1)
             c == SkipWs(s, q + 1)
         IN IF q = 0 \/ c > Len(s) \/ s[c] # ":" THEN Fail
            ELSE LET r == ScanValue(s, SkipWs(s, c + 1))
                     j == SkipWs(s, r.next)
                     more == DictPut(acc, SubSeq(s, i + 1, q - 1), r.val)
                 IN IF ~r.ok \/ j > Len(s) THEN Fail
                    ELSE IF s[j] = "}" THEN Got(DictV(more), j + 1)
                    ELSE IF s[j] = "," THEN ScanMembers(s, SkipWs(s, j + 1), more)
                    ELSE Fail
ScanValue(s, i) ==
    IF i > Len(s) THEN Fail
    ELSE IF s[i] = "\"" THEN
        LET q == CloseQuote(s, i + 1)
        IN IF q = 0 THEN Fail ELSE Got(StrV(SubSeq(s, i + 1, q - 1)), q + 1)
    ELSE IF s[i] = "{" THEN
        LET j == SkipWs(s, i + 1)
        IN IF j <= Len(s) /\ s[j] = "}" THEN Got(DictV(<<>>), j + 1) ELSE ScanMembers(s, j, <<>>)
    ELSE IF s[i] = "[" THEN
        LET j == SkipWs(s, i + 1)
        IN IF j <= Len(s) /\ s[j] = "]" THEN Got(ListV(<<>>), j + 1) ELSE ScanElems(s, j, <<>>)
    ELSE IF StartsWith(s, i, <<"n", "u", "l", "l">>) THEN Got(Null, i + 4)
    ELSE IF StartsWith(s, i, <<"t", "r", "u", "e">>) THEN Got(BoolV(TRUE), i + 4)
    ELSE IF StartsWith(s, i, <<"f", "a", "l", "s", "e">>) THEN Got(BoolV(FALSE), i + 5)
    ELSE ScanNumber(s, i)

\* json.loads(s): one value between optional whitespace, nothing after it
Loads(s) ==
    LET r == ScanValue(s, SkipWs(s, 1))
    IN IF r.ok /\ SkipWs(s, r.next) = Len(s) + 1 THEN r ELSE Fail

\* ------------------------------------------------------------ str(), repr()

RECURSIVE PyRepr(_)
RECURSIVE ReprItems(_, _, _)
ReprItems(x, i, isDict) ==
    LET e == Val(x)[i]
        one == IF isDict THEN <<"'">> \o e[1] \o <<"'", ":", " ">> \o PyRepr(e[2]) ELSE PyRepr(e)
    IN IF i = Len(Val(x)) THEN one ELSE one \o <<",", " ">> \o ReprItems(x, i + 1, isDict)
PyRepr(x) ==
    CASE Tag(x) = "null" -> <<"N", "o", "n", "e">>
      [] Tag(x) = "bool" -> IF Val(x) THEN <<"T", "r", "u", "e">> ELSE <<"F", "a", "l", "s", "e">>
      [] Tag(x) = "int" -> IntToStr(Val(x))
      [] Tag(x) = "str" -> <<"'">> \o Val(x) \o <<"'">>
      [] Tag(x) = "list" ->
            IF Val(x) = <<>> THEN <<"[", "]">> ELSE <<"[">> \o ReprItems(x, 1, FALSE) \o <<"]">>
      [] Tag(x) = "dict" ->
            IF Val(x) = <<>> THEN <<"{", "}">> ELSE <<"{">> \o ReprItems(x, 1, TRUE) \o <<"}">>

\* str(x)
PyStr(x) == IF Tag(x) = "str" THEN Val(x) ELSE PyRepr(x)


\* ------------------------------------------------------------------ bounds

MaxPollInterval == 2
MaxWaitTime == 3
MaxNetDelay == 1
MaxOversleep == 1
MaxStartClock == 1

\* no call issues more GETs than this when every sleep lasts at least one second
GetCap == MaxWaitTime + 3

\* ------------------------------------------------------------------- state

VARIABLES
    unit,             \* the plug-in unit invoked: "run", "submit", "poll", "extract"
    pc,               \* "start", "loop" (top of the while), "sleep" (in time.sleep), "done"
    text, app_id, secret_key, job_id,
    poll_interval, max_wait_time, single_query, auto_poll,
    now,              \* time.time()
    start_time,
    response,         \* the outcome of the latest request: [exc, body]
    posts, gets, sleeps,
    json_input, key_path, default_value, return_as_string,
    ret,              \* what the call returned
    auto              \* _poll_job_result run beside the loop of poll: [pc, gets, sleeps, result]

vars == <<unit, pc, text, app_id, secret_key, job_id, poll_interval, max_wait_time,
          single_query, auto_poll, now, start_time, response, posts, gets, sleeps,
          json_input, key_path, default_value, return_as_string, ret, auto>>

netInputs == <<text, app_id, secret_key, poll_interval, max_wait_time, single_query, auto_poll>>
extractInputs == <<json_input, key_path, default_value, return_as_string>>

\* ------------------------------------------------------- names and messages

KError == <<"error">>
KJobId == <<"job_id">>
KLastStatus == <<"last_status">>
KId == <<"id">>
KStatus == <<"status">>
KComment == <<"comment">>
KUrls == <<"urls">>

MsgTextBlank == <<"unknown-error: text blank">>
MsgAppIdBlank == <<"unknown-error: app_id blank">>
MsgSecretBlank == <<"unknown-error: secret_key blank">>
MsgApiRequest == <<"api-request-failed">>
MsgJsonDecode == <<"json-decode-failed">>
MsgUnknown == <<"unknown-error">>
MsgPollJobIdBlank == <<"job_id blank">>
MsgPollAppIdBlank == <<"app_id blank">>
MsgPollSecretBlank == <<"secret_key blank">>
MsgPollTimeout == <<"poll-timeout">>
MsgPollRequest == <<"poll-request-failed">>
MsgPollOther == <<"poll-error">>

\* ------------------------------------------------------------ environment

\* an exception is the set of classes it is an instance of; {} is no exception
NoExc == {}
TransportError == {"RequestException"}
\* response.json() on a body that is no JSON: json.JSONDecodeError, which newer
\* versions of requests also derive from RequestException
DecodeErrors == {{"JSONDecodeError", "ValueError"},
                 {"JSONDecodeError", "ValueError", "RequestException"}}
AttributeError == {"AttributeError"}
ValueError == {"ValueError"}

NoResponse == [exc |-> {"none"}, body |-> Null]

OptField(k, opt) == IF opt = <<>> THEN <<>> ELSE << <<k, opt[1]>> >>

RemoteStatus == {IntV(n) : n \in {-1, 0, 1, 2, 3, 4}}
RemoteIds == {StrV(<<>>), StrV(<<"j", "7">>)}
Optional(S) == {<<>>} \cup {<<x>> : x \in S}

\* bodies of the job-status endpoint
GetBodies ==
    {DictV(OptField(KStatus, st) \o OptField(KComment, cm) \o OptField(KUrls, ur)) :
        st \in Optional(RemoteStatus),
        cm \in {<<>>, <<StrV(<<"c">>)>>},
        ur \in {<<>>, <<ListV(<<StrV(<<"u">>)>>)>>}}
    \cup {ListV(<<>>)}

\* bodies of the submission endpoint
PostBodies ==
    {DictV(OptField(KId, id) \o OptField(KStatus, st)) :
        id \in Optional(RemoteIds), st \in Optional(RemoteStatus)}
    \cup {ListV(<<>>)}

\* what one request can come back with
Responses(bodies) ==
    {[exc |-> e, body |-> Null] : e \in {TransportError} \cup DecodeErrors}
    \cup {[exc |-> NoExc, body |-> b] : b \in bodies}

\* --------------------------------------------------------------- helpers

\* IsBlank without the strip: only the empty str is refused
IsBlank_emptyOnly(s) == s = <<>>

\* not s or s.strip() == ""
IsBlank(s) == s = <<>> \/ Strip(s) = <<>>

\* truth value of a decoded value
Truthy(x) ==
    CASE Tag(x) = "null" -> FALSE
      [] Tag(x) = "bool" -> Val(x)
      [] Tag(x) = "int" -> Val(x) # 0
      [] OTHER -> Val(x) # <<>>

\* TimedOut that also fires when the elapsed time equals max_wait_time
TimedOut_atDeadline(t, t0, maxw) == t - t0 >= maxw

\* TimedOut with the operands of the subtraction exchanged
TimedOut_swapped(t, t0, maxw) == t0 - t > maxw

\* time.time() - start_time > max_wait_time
TimedOut(t, t0, maxw) == t - t0 > maxw

\* result_data.get(key, default): AttributeError on a body that is no mapping
GetRaises(body) == Tag(body) # "dict"

\* ErrorJson returning the message itself instead of an object holding it
ErrorJson_bareMessage(msg) == DumpsFlat(StrV(msg))

\* json.dumps({"error": error_msg}, ensure_ascii=False)
ErrorJson(msg) == DumpsFlat(DictV(<< <<KError, StrV(msg)>> >>))

\* PollErrorObj shaped like the error of run and submit: no job_id
PollErrorObj_noJobId(msg, jid) == DictV(<< <<KError, StrV(msg)>> >>)

\* {"error": error_msg, "job_id": job_id}
PollErrorObj(msg, jid) == DictV(<< <<KError, StrV(msg)>>, <<KJobId, StrV(jid)>> >>)

\* PollTimeoutObj reporting the job id the URL was built from (job_id.strip())
PollTimeoutObj_stripped(msg, jid, st) ==
    DictV(<< <<KError, StrV(msg)>>, <<KJobId, StrV(Strip(jid))>>, <<KLastStatus, st>> >>)

\* {"error": error_msg, "job_id": job_id, "last_status": job_status}
PollTimeoutObj(msg, jid, st) ==
    DictV(<< <<KError, StrV(msg)>>, <<KJobId, StrV(jid)>>, <<KLastStatus, st>> >>)

Ret(jid, result, status) == [job_id |-> jid, result |-> result, status |-> status]
NoRet == Ret(<<>>, <<>>, 0)

\* the state of the internal loop: its position, its requests and sleeps, the body returned
Auto(p, g, s, result) == [pc |-> p, gets |-> g, sleeps |-> s, result |-> result]
NoAuto == Auto("done", 0, 0, Null)

\* ------------------------------------------------- submission: run, submit

\* the except clauses of run and submit, in order
SubmitHandlerMsg(exc) ==
    IF "RequestException" \in exc THEN MsgApiRequest
    ELSE IF "JSONDecodeError" \in exc THEN MsgJsonDecode
    ELSE MsgUnknown

\* the three input checks; <<>> when all pass, else the message of the ValueError raised
InputError(t, a, k) ==
    IF IsBlank(t) THEN <<MsgTextBlank>>
    ELSE IF IsBlank(a) THEN <<MsgAppIdBlank>>
    ELSE IF IsBlank(k) THEN <<MsgSecretBlank>>
    ELSE <<>>

\* the exception the try block ends with after the POST came back as r, {} if none
SubmitRaises(r) ==
    IF r.exc # NoExc THEN r.exc
    ELSE IF GetRaises(r.body) THEN AttributeError
    ELSE NoExc

\* BodyStatus taking a missing status for that of a running job
BodyStatus_default1(body) == DictGet(body, KStatus, IntV(1))

\* response_data.get("id", ""), response_data.get("status", 0)
BodyId(body) == DictGet(body, KId, StrV(<<>>))
BodyStatus(body) == DictGet(body, KStatus, IntV(0))

\* StartsAutoPoll without the test of the submission status
StartsAutoPoll_anyStatus(ap, body) == ap /\ Truthy(BodyId(body))

\* StartsAutoPoll without the test of job_id
StartsAutoPoll_noIdTest(ap, body) == ap /\ BodyStatus(body) = IntV(1)

\* if auto_poll and job_id and job_status == 1
StartsAutoPoll(ap, body) == ap /\ Truthy(BodyId(body)) /\ BodyStatus(body) = IntV(1)

\* MidjourneyAPI.run up to its return or its call of _poll_job_result
Run ==
    /\ unit = "run" /\ pc = "start"
    /\ LET bad == InputError(text, app_id, secret_key)
       IN IF bad # <<>>
          THEN /\ ret' = Ret(<<>>, ErrorJson(bad[1]), 0)
               /\ pc' = "done"
               /\ UNCHANGED <<job_id, now, start_time, response, posts>>
          ELSE \E r \in Responses(PostBodies), d \in 0..MaxNetDelay :
               /\ posts' = posts + 1
               /\ now' = now + d
               /\ response' = r
               /\ IF SubmitRaises(r) # NoExc
                  THEN /\ ret' = Ret(<<>>, ErrorJson(SubmitHandlerMsg(SubmitRaises(r))), 0)
                       /\ pc' = "done"
                       /\ UNCHANGED <<job_id, start_time>>
                  ELSE IF StartsAutoPoll(auto_poll, r.body)
                  THEN /\ job_id' = Val(BodyId(r.body))
                       /\ start_time' = now'
                       /\ pc' = "loop"
                       /\ ret' = ret
                  ELSE /\ ret' = Ret(<<>>, DumpsIndent(r.body), 0)
                       /\ pc' = "done"
                       /\ UNCHANGED <<job_id, start_time>>
    /\ UNCHANGED <<unit, netInputs, extractInputs, auto, gets, sleeps>>

\* MidjourneyAPISubmit.submit
Submit ==
    /\ unit = "submit" /\ pc = "start"
    /\ LET bad == InputError(text, app_id, secret_key)
       IN IF bad # <<>>
          THEN /\ ret' = Ret(<<>>, ErrorJson(bad[1]), 0)
               /\ UNCHANGED <<now, response, posts>>
          ELSE \E r \in Responses(PostBodies), d \in 0..MaxNetDelay :
               /\ posts' = posts + 1
               /\ now' = now + d
               /\ response' = r
               /\ ret' = IF SubmitRaises(r) # NoExc
                         THEN Ret(<<>>, ErrorJson(SubmitHandlerMsg(SubmitRaises(r))), 0)
                         ELSE Ret(Val(BodyId(r.body)), DumpsIndent(r.body), 0)
    /\ pc' = "done"
    /\ UNCHANGED <<unit, netInputs, extractInputs, auto, job_id, start_time, gets, sleeps>>

\* ------------------------------------------------------------ polling loops

\* IsRunning taking every status but 2 and 3 for a running job
IsRunning_notTerminal(st) == st \notin {IntV(2), IntV(3)}

IsSuccess(st) == st = IntV(2)
IsFailure(st) == st = IntV(3)
IsRunning(st) == st = IntV(1)

\* the except clauses of the two loops, in order
PollHandlerMsg(exc) == IF "RequestException" \in exc THEN MsgPollRequest ELSE MsgPollOther

\* PollInputError testing app_id before job_id
PollInputError_appFirst(j, a, k) ==
    IF IsBlank(a) THEN <<MsgPollAppIdBlank>>
    ELSE IF IsBlank(j) THEN <<MsgPollJobIdBlank>>
    ELSE IF IsBlank(k) THEN <<MsgPollSecretBlank>>
    ELSE <<>>

\* the three input checks of poll; <<>> when all pass
PollInputError(j, a, k) ==
    IF IsBlank(j) THEN <<MsgPollJobIdBlank>>
    ELSE IF IsBlank(a) THEN <<MsgPollAppIdBlank>>
    ELSE IF IsBlank(k) THEN <<MsgPollSecretBlank>>
    ELSE <<>>

\* SleepTimes of a sleep that may return one second early
SleepTimes_early(pi) == {pi - 1 + over : over \in 0..MaxOversleep}

\* time.sleep(poll_interval) returns after at least poll_interval seconds
SleepTimes(pi) == {pi + over : over \in 0..MaxOversleep}

\* what one pass of the while loop does with the response r read at time t:
\* return (result, status), or go to sleep
Return(result, status) == [sleep |-> FALSE, result |-> result, status |-> status]
GoSleep == [sleep |-> TRUE, result |-> <<>>, status |-> 0]

\* PollPass with the single_query test placed after the running branch
PollPass_singleLate(r, t, t0, maxw, single, jid) ==
    IF SubmitRaises(r) # NoExc
    THEN Return(DumpsFlat(PollErrorObj(PollHandlerMsg(SubmitRaises(r)), jid)), 0)
    ELSE LET st == BodyStatus(r.body)
         IN IF IsSuccess(st) THEN Return(DumpsIndent(r.body), 2)
            ELSE IF IsFailure(st) THEN Return(DumpsIndent(r.body), 3)
            ELSE IF IsRunning(st)
            THEN IF TimedOut(t, t0, maxw)
                 THEN Return(DumpsFlat(PollTimeoutObj(MsgPollTimeout, jid, st)), -1)
                 ELSE GoSleep
            ELSE Return(DumpsIndent(r.body), Val(st))

\* PollPass with the deadline checked at the top of the pass, as _poll_job_result does
PollPass_deadlineFirst(r, t, t0, maxw, single, jid) ==
    IF SubmitRaises(r) # NoExc
    THEN Return(DumpsFlat(PollErrorObj(PollHandlerMsg(SubmitRaises(r)), jid)), 0)
    ELSE LET st == BodyStatus(r.body)
         IN IF ~single /\ TimedOut(t, t0, maxw)
            THEN Return(DumpsFlat(PollTimeoutObj(MsgPollTimeout, jid, st)), -1)
            ELSE IF IsSuccess(st) THEN Return(DumpsIndent(r.body), 2)
            ELSE IF IsFailure(st) THEN Return(DumpsIndent(r.body), 3)
            ELSE IF single THEN Return(DumpsIndent(r.body), Val(st))
            ELSE IF IsRunning(st) THEN GoSleep
            ELSE Return(DumpsIndent(r.body), Val(st))

\* PollPass returning the timeout with job_status as its code
PollPass_timeoutStatus(r, t, t0, maxw, single, jid) ==
    IF SubmitRaises(r) # NoExc
    THEN Return(DumpsFlat(PollErrorObj(PollHandlerMsg(SubmitRaises(r)), jid)), 0)
    ELSE LET st == BodyStatus(r.body)
         IN IF IsSuccess(st) THEN Return(DumpsIndent(r.body), 2)
            ELSE IF IsFailure(st) THEN Return(DumpsIndent(r.body), 3)
            ELSE IF single THEN Return(DumpsIndent(r.body), Val(st))
            ELSE IF IsRunning(st)
            THEN IF TimedOut(t, t0, maxw)
                 THEN Return(DumpsFlat(PollTimeoutObj(MsgPollTimeout, jid, st)), Val(st))
                 ELSE GoSleep
            ELSE Return(DumpsIndent(r.body), Val(st))

\* one pass of the loop of MidjourneyAPIPoll.poll
PollPass(r, t, t0, maxw, single, jid) ==
    IF SubmitRaises(r) # NoExc
    THEN Return(DumpsFlat(PollErrorObj(PollHandlerMsg(SubmitRaises(r)), jid)), 0)
    ELSE LET st == BodyStatus(r.body)
         IN IF IsSuccess(st) THEN Return(DumpsIndent(r.body), 2)
            ELSE IF IsFailure(st) THEN Return(DumpsIndent(r.body), 3)
            ELSE IF single THEN Return(DumpsIndent(r.body), Val(st))
            ELSE IF IsRunning(st)
            THEN IF TimedOut(t, t0, maxw)
                 THEN Return(DumpsFlat(PollTimeoutObj(MsgPollTimeout, jid, st)), -1)
                 ELSE GoSleep
            ELSE Return(DumpsIndent(r.body), Val(st))

\* MidjourneyAPIPoll.poll up to the while loop
PollStart ==
    /\ unit = "poll" /\ pc = "start"
    /\ LET bad == PollInputError(job_id, app_id, secret_key)
       IN IF bad # <<>>
          THEN /\ ret' = Ret(<<>>, ErrorJson(bad[1]), 0)
               /\ pc' = "done"
               /\ start_time' = start_time
          ELSE /\ start_time' = now
               /\ pc' = "loop"
               /\ ret' = ret
    /\ UNCHANGED <<unit, netInputs, extractInputs, auto, job_id, now, response, posts, gets, sleeps>>

\* one pass of the while loop of poll: the GET and what follows it
PollIter ==
    /\ unit = "poll" /\ pc = "loop" /\ gets < GetCap
    /\ \E r \in Responses(GetBodies), d \in 0..MaxNetDelay :
         LET out == PollPass(r, now + d, start_time, max_wait_time, single_query, job_id)
         IN /\ gets' = gets + 1
            /\ now' = now + d
            /\ response' = r
            /\ IF out.sleep
               THEN pc' = "sleep" /\ ret' = ret
               ELSE pc' = "done" /\ ret' = Ret(<<>>, out.result, out.status)
    /\ UNCHANGED <<unit, netInputs, extractInputs, auto, job_id, start_time, posts, sleeps>>

\* time.sleep(poll_interval); continue
PollSleep ==
    /\ unit = "poll" /\ pc = "sleep"
    /\ \E dt \in SleepTimes(poll_interval) : now' = now + dt
    /\ sleeps' = sleeps + 1
    /\ pc' = "loop"
    /\ UNCHANGED <<unit, netInputs, extractInputs, auto, job_id, start_time, response, posts, gets, ret>>

\* one pass of the loop of _poll_job_result after its deadline check passed
AutoPollPass(r, jid) ==
    IF SubmitRaises(r) # NoExc
    THEN Return(PollErrorObj(PollHandlerMsg(SubmitRaises(r)), jid), 0)
    ELSE IF IsRunning(BodyStatus(r.body)) THEN GoSleep
    ELSE Return(r.body, 0)

\* one pass of the while loop of _poll_job_result, and the return of run when it ends
AutoPollIter ==
    /\ unit = "run" /\ pc = "loop"
    /\ IF TimedOut(now, start_time, max_wait_time)
       THEN /\ ret' = Ret(<<>>, DumpsIndent(PollErrorObj(MsgPollTimeout, job_id)), 0)
            /\ pc' = "done"
            /\ UNCHANGED <<now, response, gets>>
       ELSE /\ gets < GetCap
            /\ \E r \in Responses(GetBodies), d \in 0..MaxNetDelay :
                 LET out == AutoPollPass(r, job_id)
                 IN /\ gets' = gets + 1
                    /\ now' = now + d
                    /\ response' = r
                    /\ IF out.sleep
                       THEN pc' = "sleep" /\ ret' = ret
                       ELSE pc' = "done" /\ ret' = Ret(<<>>, DumpsIndent(out.result), 0)
    /\ UNCHANGED <<unit, netInputs, extractInputs, auto, job_id, start_time, posts, sleeps>>

\* time.sleep(poll_interval); continue
AutoPollSleep ==
    /\ unit = "run" /\ pc = "sleep"
    /\ \E dt \in SleepTimes(poll_interval) : now' = now + dt
    /\ sleeps' = sleeps + 1
    /\ pc' = "loop"
    /\ UNCHANGED <<unit, netInputs, extractInputs, auto, job_id, start_time, response, posts, gets, ret>>

\* ------------------------------------------------------------ specification

\* str inputs: empty, whitespace only, and a padded non-blank one
StrInputs == {<<>>, <<" ">>, <<" ", "k">>}

NoExtract ==
    /\ json_input = Null /\ key_path = <<>> /\ default_value = <<>> /\ return_as_string = FALSE

Init ==
    /\ unit \in {"run", "submit", "poll"}
    /\ pc = "start"
    /\ app_id \in StrInputs /\ secret_key \in StrInputs
    /\ text \in (IF unit = "poll" THEN {<<>>} ELSE StrInputs)
    /\ job_id \in (IF unit = "poll" THEN StrInputs ELSE {<<>>})
    /\ poll_interval \in (IF unit = "submit" THEN {1} ELSE 1..MaxPollInterval)
    /\ max_wait_time \in (IF unit = "submit" THEN {0} ELSE 0..MaxWaitTime)
    /\ single_query \in (IF unit = "poll" THEN BOOLEAN ELSE {FALSE})
    /\ auto_poll \in (IF unit = "run" THEN BOOLEAN ELSE {FALSE})
    /\ now \in 0..MaxStartClock
    /\ start_time = 0
    /\ response = NoResponse
    /\ posts = 0 /\ gets = 0 /\ sleeps = 0
    /\ ret = NoRet
    /\ auto = NoAuto
    /\ NoExtract

Next == Run \/ Submit \/ PollStart \/ PollIter \/ PollSleep \/ AutoPollIter \/ AutoPollSleep

Spec == Init /\ [][Next]_vars

\* every call runs on: the calling thread is never descheduled for ever
LiveSpec == Spec /\ WF_vars(Next)

\* ------------------------------------ the two polling loops on one remote

\* The loop of poll (single_query false) and _poll_job_result started at the same
\* time for the same job.  While both run, each request and each sleep of one is the
\* request or the sleep of the other: same response, same duration, same clock.
\* When one has returned the other goes on alone.

\* a pass of both loops: the deadline check of _poll_job_result, the GET, what follows
PairIter ==
    /\ unit = "pair"
    /\ pc = "loop" \/ auto.pc = "loop"
    /\ LET autoExpired == auto.pc = "loop" /\ TimedOut(now, start_time, max_wait_time)
           autoGets == auto.pc = "loop" /\ ~autoExpired
           expired == Auto("done", auto.gets, auto.sleeps, PollErrorObj(MsgPollTimeout, job_id))
       IN IF pc # "loop" /\ ~autoGets
          THEN /\ auto' = expired
               /\ UNCHANGED <<pc, now, response, gets, ret>>
          ELSE /\ pc = "loop" => gets < GetCap
               /\ autoGets => auto.gets < GetCap
               /\ \E r \in Responses(GetBodies), d \in 0..MaxNetDelay :
                    LET out == PollPass(r, now + d, start_time, max_wait_time, FALSE, job_id)
                        aout == AutoPollPass(r, job_id)
                    IN /\ now' = now + d
                       /\ response' = r
                       /\ IF pc = "loop"
                          THEN /\ gets' = gets + 1
                               /\ IF out.sleep
                                  THEN pc' = "sleep" /\ ret' = ret
                                  ELSE pc' = "done" /\ ret' = Ret(<<>>, out.result, out.status)
                          ELSE UNCHANGED <<pc, gets, ret>>
                       /\ auto' = IF autoGets
                                  THEN IF aout.sleep
                                       THEN Auto("sleep", auto.gets + 1, auto.sleeps, Null)
                                       ELSE Auto("done", auto.gets + 1, auto.sleeps, aout.result)
                                  ELSE IF autoExpired THEN expired
                                  ELSE auto
    /\ UNCHANGED <<unit, netInputs, extractInputs, job_id, start_time, posts, sleeps>>

\* time.sleep(poll_interval) of the loops that are asleep
PairSleep ==
    /\ unit = "pair"
    /\ pc = "sleep" \/ auto.pc = "sleep"
    /\ \E dt \in SleepTimes(poll_interval) : now' = now + dt
    /\ IF pc = "sleep" THEN pc' = "loop" /\ sleeps' = sleeps + 1 ELSE UNCHANGED <<pc, sleeps>>
    /\ auto' = IF auto.pc = "sleep" THEN Auto("loop", auto.gets, auto.sleeps + 1, Null) ELSE auto
    /\ UNCHANGED <<unit, netInputs, extractInputs, job_id, start_time, response, posts, gets, ret>>

InitPair ==
    /\ unit = "pair"
    /\ pc = "loop"
    /\ job_id \in {<<" ", "k">>, <<"j", "7">>}
    /\ app_id = <<"k">> /\ secret_key = <<"k">> /\ text = <<>>
    /\ poll_interval \in 1..MaxPollInterval
    /\ max_wait_time \in 0..MaxWaitTime
    /\ single_query = FALSE /\ auto_poll = FALSE
    /\ now \in 0..MaxStartClock
    /\ start_time = now
    /\ response = NoResponse
    /\ posts = 0 /\ gets = 0 /\ sleeps = 0
    /\ ret = NoRet
    /\ auto = Auto("loop", 0, 0, Null)
    /\ NoExtract

NextPair == PairIter \/ PairSleep

SpecPair == InitPair /\ [][NextPair]_vars

\* ------------------------------------------ MidjourneyJSONExtractor.extract

JSONDecodeError == {"JSONDecodeError", "ValueError", "Exception"}
KeyError == {"KeyError", "LookupError", "Exception"}

\* a step of the try block: the value reached, or the exception raised
Reached(v) == [exc |-> NoExc, val |-> v]
Raised(e) == [exc |-> e, val |-> Null]

\* data = json.loads(json_input) if isinstance(json_input, str) else json_input
ParseInput(ji) ==
    IF Tag(ji) = "str"
    THEN LET r == Loads(Val(ji)) IN IF r.ok THEN Reached(r.val) ELSE Raised(JSONDecodeError)
    ELSE Reached(ji)

\* keys = key_path.strip().split('.')
Keys(kp) == Split(Strip(kp), ".")

\* Descend counting the elements of a sequence from one
Descend_oneBased(cur, key) ==
    IF Tag(cur) = "dict" /\ HasKey(cur, key) THEN Reached(Item(cur, key))
    ELSE IF Tag(cur) = "list" /\ IsDigit(key)
    THEN LET index == StrToNat(key)
         IN IF 0 < index /\ index <= Len(Val(cur))
            THEN Reached(Val(cur)[index])
            ELSE Raised(KeyError)
    ELSE Raised(KeyError)

\* the body of the for loop: one key applied to current_data
Descend(cur, key) ==
    IF Tag(cur) = "dict" /\ HasKey(cur, key) THEN Reached(Item(cur, key))
    ELSE IF Tag(cur) = "list" /\ IsDigit(key)
    THEN LET index == StrToNat(key)
         IN IF 0 <= index /\ index < Len(Val(cur))
            THEN Reached(Val(cur)[index + 1])
            ELSE Raised(KeyError)
    ELSE Raised(KeyError)

\* for key in keys, from the i-th key on
RECURSIVE Walk(_, _, _)
Walk(cur, keys, i) ==
    IF i > Len(keys) THEN Reached(cur)
    ELSE LET d == Descend(cur, keys[i])
         IN IF d.exc # NoExc THEN d ELSE Walk(d.val, keys, i + 1)

\* result: the formatted value, a str
Format(cur, asString) ==
    IF asString
    THEN IF IsComposite(cur) THEN DumpsIndent(cur) ELSE PyStr(cur)
    ELSE IF cur # Null THEN PyStr(cur) ELSE <<>>

\* formatted_result = json.loads(result), or result when that raises JSONDecodeError
Reparse(result) == LET r == Loads(result) IN IF r.ok THEN r.val ELSE StrV(result)

\* what extract returns: "result" (or the 1-tuple), the "ui" payload if there is one,
\* the exception an except clause caught, and the exception that left the call
ExtractRet(result, hasUi, uiJson, uiText, caught, escaped) ==
    [result |-> result, ui |-> hasUi, ui_json |-> uiJson, ui_text |-> uiText,
     caught |-> caught, escaped |-> escaped]
NoExtractRet == ExtractRet(Null, FALSE, Null, <<>>, NoExc, NoExc)

\* return {"ui": {"json": [formatted_result], "text": [result]}, "result": (formatted_result,)}
OnSuccess(cur, asString) ==
    LET result == Format(cur, asString)
        formatted_result == Reparse(result)
    IN ExtractRet(formatted_result, TRUE, formatted_result, result, NoExc, NoExc)

\* OnFailure returning the empty str instead of the caller's default
OnFailure_empty(e, dflt) ==
    IF {"JSONDecodeError", "KeyError", "Exception"} \cap e # {}
    THEN ExtractRet(StrV(<<>>), FALSE, Null, <<>>, e, NoExc)
    ELSE ExtractRet(Null, FALSE, Null, <<>>, NoExc, e)

\* the except clauses: json.JSONDecodeError, KeyError, Exception all return (default_value,)
OnFailure(e, dflt) ==
    IF {"JSONDecodeError", "KeyError", "Exception"} \cap e # {}
    THEN ExtractRet(StrV(dflt), FALSE, Null, <<>>, e, NoExc)
    ELSE ExtractRet(Null, FALSE, Null, <<>>, NoExc, e)

ExtractResult(ji, kp, dflt, asString) ==
    LET data == ParseInput(ji)
    IN IF data.exc # NoExc THEN OnFailure(data.exc, dflt)
       ELSE LET w == Walk(data.val, Keys(kp), 1)
            IN IF w.exc # NoExc THEN OnFailure(w.exc, dflt) ELSE OnSuccess(w.val, asString)

Extract ==
    /\ unit = "extract" /\ pc = "start"
    /\ ret' = ExtractResult(json_input, key_path, default_value, return_as_string)
    /\ pc' = "done"
    /\ UNCHANGED <<unit, netInputs, extractInputs, auto, job_id, now, start_time, response,
                   posts, gets, sleeps>>

\* ------------------------------------------------- inputs of the extractor

MaxSegs == 3

Str1(c) == StrV(<<c>>)
Docs ==
    { DictV(<< <<KUrls, ListV(<<Str1("a"), Str1("b")>>)>> >>),
      DictV(<< <<<<"a">>, IntV(1)>> >>),
      DictV(<< <<<<"a">>, StrV(<<"1", "2", "3">>)>>, <<KUrls, ListV(<<>>)>> >>),
      DictV(<< <<<<"a">>, DictV(<< <<<<"0">>, Null>>, <<<<"1">>, Str1("a")>> >>)>>,
               <<<<"0">>, BoolV(TRUE)>> >>),
      ListV(<<StrV(<<"t", "r", "u", "e">>), ListV(<<IntV(-5), StrV(<<"a", " ", "b">>)>>)>>),
      IntV(7) }

DropLast(s) == SubSeq(s, 1, Len(s) - 1)

\* texts that json.loads refuses among them: cut short, a Python repr, a trailing
\* comma, a leading zero, the empty text
OtherTexts ==
    {DropLast(DumpsFlat(d)) : d \in Docs}
    \cup {PyRepr(d) : d \in Docs}
    \cup {<<>>, <<"[", "1", ",", "]">>, <<"0", "1">>, <<"1", " ", "2">>}

JsonInputs ==
    {StrV(DumpsFlat(d)) : d \in Docs} \cup {StrV(DumpsIndent(d)) : d \in Docs}
    \cup Docs \cup {StrV(t) : t \in OtherTexts}

Segments == {KUrls, <<"a">>, <<"0">>, <<"1">>, <<"0", "1">>, <<>>}

RECURSIVE Join(_, _)
Join(segs, sep) ==
    IF Len(segs) = 1 THEN segs[1] ELSE segs[1] \o <<sep>> \o Join(Tail(segs), sep)

KeyPaths ==
    LET plain == {Join(p, ".") : p \in UNION {[1..n -> Segments] : n \in 1..MaxSegs}}
    IN plain \cup {<<" ">> \o p \o <<" ", "\n">> : p \in plain}

Defaults == {<<>>, <<"X">>}

InitExtract ==
    /\ unit = "extract"
    /\ pc = "start"
    /\ json_input \in JsonInputs
    /\ key_path \in KeyPaths
    /\ default_value \in Defaults
    /\ return_as_string \in BOOLEAN
    /\ text = <<>> /\ app_id = <<>> /\ secret_key = <<>> /\ job_id = <<>>
    /\ poll_interval = 1 /\ max_wait_time = 0
    /\ single_query = FALSE /\ auto_poll = FALSE
    /\ now = 0 /\ start_time = 0
    /\ response = NoResponse
    /\ posts = 0 /\ gets = 0 /\ sleeps = 0
    /\ ret = NoExtractRet
    /\ auto = NoAuto

NextExtract == Extract

SpecExtract == InitExtract /\ [][NextExtract]_vars

\* ------------------------------------------------------------- properties

\* the returned text decoded again
RetJson == Loads(ret.result)

\* the returned text is a JSON object with the key "error"
ErrorShaped == RetJson.ok /\ Tag(RetJson.val) = "dict" /\ HasKey(RetJson.val, KError)

\* the returned text is the JSON text of the latest response body
ReturnsBody == RetJson.ok /\ RetJson.val = response.body

\* empty or whitespace only
Blank(s) == \A i \in 1..Len(s) : s[i] \in Whitespace

\* the latest request came back with a decoded mapping whose status field is n
LastStatusIs(n) ==
    /\ response.exc = NoExc
    /\ Tag(response.body) = "dict"
    /\ HasKey(response.body, KStatus)
    /\ Item(response.body, KStatus) = IntV(n)

\* the latest request failed in transport or in decoding its body
LastFailed == "RequestException" \in response.exc \/ "JSONDecodeError" \in response.exc

\* the call has returned and takes no further step
Returned == pc = "done" /\ ~ENABLED Next

\* C1: in poll with single_query false, once a status-1 response is read more than
\* max_wait_time after the loop start, the call returns code -1 and an error object
\* with "error", the caller's job_id unchanged and last_status 1.
C1_PollTimeout ==
    (/\ unit = "poll" /\ ~single_query /\ pc \in {"sleep", "done"}
     /\ LastStatusIs(1)
     /\ now - start_time > max_wait_time)
    => /\ Returned
       /\ ret.status = -1
       /\ ErrorShaped
       /\ DictGet(RetJson.val, KJobId, Null) = StrV(job_id)
       /\ DictGet(RetJson.val, KLastStatus, Null) = IntV(1)

C1_Witness ==
    /\ unit = "poll" /\ ~single_query /\ pc = "done"
    /\ ret.status = -1 /\ LastStatusIs(1)
    /\ sleeps >= 2 /\ gets = sleeps + 1
    /\ job_id = <<" ", "k">>

\* C2: in poll with single_query true and non-blank inputs, the call issues exactly
\* one GET, never sleeps and returns on that response, the status code being the
\* status field of the response (1 for a running job).
C2_SingleQuery ==
    (unit = "poll" /\ single_query)
    => /\ sleeps = 0
       /\ gets <= 1
       /\ (gets = 1 => Returned)
       /\ (pc = "done" /\ ~Blank(job_id) /\ ~Blank(app_id) /\ ~Blank(secret_key)
             => gets = 1)
       /\ \A n \in {-1, 0, 1, 2, 3, 4} :
             LastStatusIs(n) => ret.status = n /\ ReturnsBody

C2_Witness ==
    /\ unit = "poll" /\ single_query /\ pc = "done"
    /\ gets = 1 /\ sleeps = 0
    /\ LastStatusIs(1) /\ ret.status = 1

\* C3: in poll, a response with status 2 or 3 ends the call with the full body and
\* code 2 or 3, for both values of single_query and any elapsed time; no GET and no
\* sleep follows.
C3_TerminalStatus ==
    \A n \in {2, 3} :
        (unit = "poll" /\ LastStatusIs(n))
        => Returned /\ ret.status = n /\ ReturnsBody

C3_Witness ==
    /\ unit = "poll" /\ ~single_query /\ pc = "done"
    /\ LastStatusIs(3) /\ ret.status = 3
    /\ gets >= 2
    /\ now - start_time > max_wait_time

\* C4: in poll, a transport or decoding failure of any GET ends the call with code 0
\* and an error object holding "error" and the job_id; no GET and no sleep follows.
C4_RequestError ==
    (unit = "poll" /\ LastFailed)
    => /\ Returned
       /\ ret.status = 0
       /\ ErrorShaped
       /\ DictGet(RetJson.val, KJobId, Null) = StrV(job_id)

C4_Witness ==
    /\ unit = "poll" /\ pc = "done"
    /\ "JSONDecodeError" \in response.exc
    /\ gets >= 2 /\ sleeps = gets - 1
    /\ ret.status = 0

\* C5: in run and submit, a blank text, app_id or secret_key gives an error-shaped
\* result without any POST or GET; submit returns the empty job_id.
C5_BlankInput ==
    (unit \in {"run", "submit"} /\ (Blank(text) \/ Blank(app_id) \/ Blank(secret_key)))
    => /\ posts = 0 /\ gets = 0 /\ sleeps = 0
       /\ (pc # "start" => Returned /\ ErrorShaped /\ ret.job_id = <<>>)

C5_Witness ==
    /\ unit = "submit" /\ pc = "done"
    /\ ~Blank(text) /\ ~Blank(app_id) /\ secret_key = <<" ">>
    /\ posts = 0 /\ ErrorShaped

\* C6: in run and submit with valid inputs, a POST that fails in transport or in
\* decoding ends the call with an error-shaped result; no GET follows and submit
\* returns the empty job_id.
C6_PostFailure ==
    (unit \in {"run", "submit"} /\ posts = 1 /\ gets = 0 /\ LastFailed)
    => /\ Returned
       /\ ErrorShaped
       /\ ret.job_id = <<>>

C6_Witness ==
    /\ unit = "run" /\ auto_poll /\ pc = "done"
    /\ posts = 1 /\ gets = 0
    /\ response.exc = TransportError
    /\ ErrorShaped

\* C7: a POST response with status 2 is returned unchanged by run, for both values
\* of auto_poll and without any GET, and by submit together with its id field.
C7_ImmediateSuccess ==
    (unit \in {"run", "submit"} /\ posts = 1 /\ gets = 0 /\ LastStatusIs(2))
    => /\ Returned
       /\ ReturnsBody
       /\ (unit = "submit" /\ HasKey(response.body, KId)
             => StrV(ret.job_id) = Item(response.body, KId))

C7_Witness ==
    /\ unit = "run" /\ auto_poll /\ pc = "done"
    /\ posts = 1 /\ gets = 0
    /\ LastStatusIs(2) /\ Truthy(BodyId(response.body))
    /\ ReturnsBody

\* C8: a polling loop that was entered returns: the loop of poll and the auto-poll
\* loop of run both end, also for a job that stays at status 1.
C8_LoopReturns == [](pc = "loop" => <>(pc = "done"))

C8_Witness ==
    /\ unit = "run" /\ pc = "done"
    /\ LastStatusIs(1)
    /\ sleeps >= 2 /\ gets = sleeps
    /\ ErrorShaped

\* the root the path starts from, and the segments of the path
RefRoot == IF Tag(json_input) = "str" THEN Loads(Val(json_input)).val ELSE json_input
RefSegs == Split(Strip(key_path), ".")

\* json_input is a str that is no JSON text
Malformed == Tag(json_input) = "str" /\ ~Loads(Val(json_input)).ok

\* the segment cannot be followed from the node: not a key of the mapping, not an
\* in-range all-digit index of the sequence, or the node is a scalar
FailsHere(node, seg) ==
    \/ Tag(node) = "dict" /\ ~HasKey(node, seg)
    \/ Tag(node) = "list" /\ (~IsDigit(seg) \/ StrToNat(seg) >= Len(Val(node)))
    \/ Tag(node) \notin {"dict", "list"}

RefChild(node, seg) ==
    IF Tag(node) = "dict" THEN Item(node, seg) ELSE Val(node)[StrToNat(seg) + 1]

\* some segment from the i-th on cannot be followed
RECURSIVE PathFails(_, _, _)
PathFails(node, segs, i) ==
    /\ i <= Len(segs)
    /\ (FailsHere(node, segs[i]) \/ PathFails(RefChild(node, segs[i]), segs, i + 1))

\* C9: with return_as_string true the primary result of extract is the formatted
\* str (indented JSON text of a mapping or sequence, str() of a scalar); the value
\* re-parsed for the preview does not replace it.
C9_PrimaryIsFormatted ==
    (unit = "extract" /\ pc = "done" /\ ret.ui /\ return_as_string)
    => LET cur == Walk(RefRoot, RefSegs, 1).val
       IN /\ ret.ui_text = (IF IsComposite(cur) THEN DumpsIndent(cur) ELSE PyStr(cur))
          /\ ret.result = StrV(ret.ui_text)

\* C10: extract lets no exception out, and returns the caller's default_value when
\* json_input is malformed or a segment of the path cannot be followed.
C10_FailureGivesDefault ==
    (unit = "extract" /\ pc = "done")
    => /\ ret.escaped = NoExc
       /\ (Malformed \/ PathFails(RefRoot, RefSegs, 1)
             => ~ret.ui /\ ret.result = StrV(default_value))

C10_Witness ==
    /\ unit = "extract" /\ pc = "done"
    /\ json_input = StrV(DumpsFlat(DictV(<< <<<<"a">>, IntV(1)>> >>)))
    /\ key_path = KUrls \o <<".", "1">>
    /\ default_value = <<"X">>
    /\ ret.result = StrV(<<"X">>)
    /\ "KeyError" \in ret.caught


\* the value the path leads to when every segment can be followed
RECURSIVE RefValue(_, _, _)
RefValue(node, segs, i) ==
    IF i > Len(segs) THEN node ELSE RefValue(RefChild(node, segs[i]), segs, i + 1)

\* C11: on well-formed input extract follows the segments of key_path from the root,
\* left to right: a key of a mapping (all digits or not) leads to its value, an
\* all-digit segment at a sequence is a zero-based index; the value selected, shown
\* in the "text" payload, is the one the reference navigation reaches.
C11_SelectsReference ==
    (unit = "extract" /\ pc = "done" /\ ~Malformed)
    => /\ ret.ui <=> ~PathFails(RefRoot, RefSegs, 1)
       /\ ret.ui => ret.ui_text = Format(RefValue(RefRoot, RefSegs, 1), return_as_string)

C11_Witness ==
    /\ unit = "extract" /\ pc = "done"
    /\ json_input = StrV(DumpsFlat(DictV(<< <<KUrls, ListV(<<Str1("a"), Str1("b")>>)>> >>)))
    /\ key_path = KUrls \o <<".", "1">>
    /\ ret.ui /\ ret.ui_text = <<"b">>


\* C12: _poll_job_result is the loop of poll with single_query false without the
\* status code: on the same responses and clock both issue the same GETs and sleeps
\* (the two alternate, so the same numbers of each) and the internal loop returns the
\* body that poll returns as its first output.
C12_SameLoop ==
    (unit = "pair" /\ pc = "done" /\ auto.pc = "done")
    => /\ gets = auto.gets
       /\ sleeps = auto.sleeps
       /\ RetJson.ok /\ RetJson.val = auto.result


\* what json.loads makes of the str a unit returned
Decoded(s) == [ok |-> Loads(s).ok, val |-> Loads(s).val]
Body(v) == [ok |-> TRUE, val |-> v]

\* the step of run in which the POST came back without an exception
PostSucceeds == unit = "run" /\ pc = "start" /\ posts' = posts + 1 /\ SubmitRaises(response') = NoExc

\* run's step after a POST that succeeded: into the loop when polls holds, else return the
\* submission body with no GET
RunAfterPost(polls) ==
    PostSucceeds =>
        IF polls
        THEN pc' = "loop" /\ gets' = 0 /\ ret' = ret
        ELSE pc' = "done" /\ gets' = 0 /\ Decoded(ret'.result) = Body(response'.body)

\* the body _poll_job_result ends with in the step that leaves the loop
LoopFinalBody ==
    IF gets' = gets THEN PollErrorObj(MsgPollTimeout, job_id)
    ELSE IF SubmitRaises(response') # NoExc
    THEN PollErrorObj(PollHandlerMsg(SubmitRaises(response')), job_id)
    ELSE response'.body

\* run returns the loop's final body; every GET comes after the single POST
RunLoopSteps ==
    unit = "run" =>
        /\ (pc = "loop" /\ pc' = "done") => Decoded(ret'.result) = Body(LoopFinalBody)
        /\ gets' > gets => posts = 1 /\ posts' = 1

\* C13 (as stated): after a POST that succeeded run enters the loop exactly when
\* auto_poll is true and the submission status is 1, and returns the loop's final
\* body; otherwise it issues no GET and returns the submission body; every GET
\* comes after the single POST.
C13_PollsOnStatus1 ==
    [][RunAfterPost(auto_poll /\ BodyStatus(response'.body) = IntV(1)) /\ RunLoopSteps]_vars

\* C13 (amended): as above, but run enters the loop exactly when auto_poll is true,
\* the submission status is 1 and the submission response has a non-empty id.
C13_PollsOnStatus1WithId ==
    [][RunAfterPost(/\ auto_poll
                    /\ BodyStatus(response'.body) = IntV(1)
                    /\ Val(BodyId(response'.body)) # <<>>) /\ RunLoopSteps]_vars

\* run polled a job twice and returned the success body of the second GET
C13_Witness ==
    /\ unit = "run" /\ pc = "done" /\ auto_poll
    /\ posts = 1 /\ gets = 2 /\ sleeps = 1
    /\ job_id = <<"j", "7">>
    /\ LastStatusIs(2) /\ ReturnsBody


\* the step of poll (single_query false) in which a GET came back with a body
PollReads == unit = "poll" /\ ~single_query /\ pc = "loop" /\ gets' = gets + 1 /\ SubmitRaises(response') = NoExc

\* C14: in poll with single_query false, a status-1 response ends the call with the
\* timeout result (code -1) exactly when the time elapsed since the loop start is
\* strictly greater than max_wait_time; otherwise the call sleeps once, for at
\* least poll_interval, and is back at the GET.  A response with any other status
\* is returned whatever the elapsed time.
C14_StrictDeadline ==
    [][/\ PollReads =>
            IF BodyStatus(response'.body) = IntV(1)
            THEN IF now' - start_time > max_wait_time
                 THEN /\ pc' = "done" /\ ret'.status = -1
                      /\ Decoded(ret'.result)
                           = Body(PollTimeoutObj(MsgPollTimeout, job_id, IntV(1)))
                 ELSE pc' = "sleep" /\ ret' = ret /\ sleeps' = sleeps
            ELSE /\ pc' = "done"
                 /\ Decoded(ret'.result) = Body(response'.body)
                 /\ ret'.status = Val(BodyStatus(response'.body))
       /\ (unit = "poll" /\ pc = "sleep") =>
            /\ pc' = "loop" /\ sleeps' = sleeps + 1 /\ gets' = gets
            /\ now' >= now + poll_interval
      ]_vars

\* a status-1 response read exactly at the deadline: the call sleeps
C14_Witness ==
    /\ unit = "poll" /\ ~single_query /\ pc = "sleep"
    /\ LastStatusIs(1)
    /\ max_wait_time > 0 /\ now - start_time = max_wait_time

\* C15: in poll, a response whose status is an integer other than 1, 2 and 3 ends
\* the call: the body is returned with that status as the code, and the call has
\* not slept since (one sleep before each GET but the first).
C15_UnknownStatus ==
    \A n \in {-1, 0, 4} :
        (unit = "poll" /\ LastStatusIs(n))
        => /\ Returned
           /\ ret.status = n
           /\ ReturnsBody
           /\ sleeps = gets - 1

\* status 4 at the second GET, before the deadline, single_query false
C15_Witness ==
    /\ unit = "poll" /\ ~single_query /\ pc = "done"
    /\ gets = 2 /\ LastStatusIs(4)
    /\ now - start_time < max_wait_time
    /\ ret.status = 4

\* C16: one call of poll issues at most max_wait_time \div poll_interval + 2 GETs,
\* one run of _poll_job_result at most max_wait_time \div poll_interval + 1.
C16_GetBound ==
    /\ unit = "poll" => gets <= (max_wait_time \div poll_interval) + 2
    /\ unit = "run" => gets <= (max_wait_time \div poll_interval) + 1

\* poll reaches its bound with a poll_interval that does not divide max_wait_time
C16_Witness ==
    /\ unit = "poll" /\ pc = "done"
    /\ poll_interval = 2 /\ max_wait_time = 3
    /\ gets = 3 /\ sleeps = 2

\* what poll with single_query false returned
PollReturned == unit = "poll" /\ ~single_query /\ pc = "done"

\* the codes poll (single_query false) returns: never 1, never the code of a status
\* it has not read
PollCodes ==
    /\ ret.status # 1
    /\ ret.status \in {2, 3, -1, 0} \/ LastStatusIs(ret.status)

\* the result carries last_status
HasLastStatus == RetJson.ok /\ Tag(RetJson.val) = "dict" /\ HasKey(RetJson.val, KLastStatus)

\* C17 (as stated): poll with single_query false never returns code 1; the code is
\* 2, 3, -1, 0 or a remote status other than 1, 2, 3; code -1 is returned only when
\* the last response had status 1, and only then does the result carry last_status.
C17_TimeoutCode ==
    PollReturned
    => /\ PollCodes
       /\ ret.status = -1 => LastStatusIs(1)
       /\ HasLastStatus => ret.status = -1 /\ LastStatusIs(1)

\* C17 (amended): as above, but code -1 is returned only when the last response had
\* status 1 (the timeout) or status -1 (returned as it came); last_status is in the
\* result exactly in the first case.
C17_TimeoutOrRemoteCode ==
    PollReturned
    => /\ PollCodes
       /\ ret.status = -1 => LastStatusIs(1) \/ (LastStatusIs(-1) /\ ReturnsBody)
       /\ HasLastStatus <=> (ret.status = -1 /\ LastStatusIs(1))

\* the remote answered status -1 at the second GET
C17_Witness ==
    /\ PollReturned
    /\ gets = 2 /\ LastStatusIs(-1)
    /\ ret.status = -1 /\ ReturnsBody /\ ~HasLastStatus

\* the message the error object of the result carries
ErrorMessage == Val(DictGet(RetJson.val, KError, StrV(<<>>)))

\* C18: in poll a blank job_id, app_id or secret_key gives an error object with
\* code 0, without any GET or sleep, for both values of single_query; the message
\* is that of the first blank one in the order job_id, app_id, secret_key.
C18_PollBlankInput ==
    (unit = "poll" /\ (Blank(job_id) \/ Blank(app_id) \/ Blank(secret_key)))
    => /\ gets = 0 /\ sleeps = 0
       /\ pc # "start" =>
            /\ Returned /\ ErrorShaped /\ ret.status = 0
            /\ ErrorMessage = IF Blank(job_id) THEN MsgPollJobIdBlank
                              ELSE IF Blank(app_id) THEN MsgPollAppIdBlank
                              ELSE MsgPollSecretBlank

\* job_id and app_id both blank: the message is that of job_id
C18_Witness ==
    /\ unit = "poll" /\ pc = "done" /\ single_query
    /\ job_id = <<" ">> /\ app_id = <<>> /\ ~Blank(secret_key)
    /\ ErrorMessage = MsgPollJobIdBlank
    /\ gets = 0

\* the last response is a dict without a status field
NoStatusField ==
    response.exc = NoExc /\ Tag(response.body) = "dict" /\ ~HasKey(response.body, KStatus)

\* the last response is a dict with a non-empty id
HasId == Tag(response.body) = "dict" /\ Val(DictGet(response.body, KId, StrV(<<>>))) # <<>>

\* C19: a response without a status field is handled as status 0: poll returns the
\* body with code 0 and does not retry, _poll_job_result returns the body, and run
\* does not poll after a submission response without a status field or without a
\* non-empty id.
C19_MissingStatus ==
    /\ (unit = "poll" /\ gets >= 1 /\ NoStatusField)
       => Returned /\ ret.status = 0 /\ ReturnsBody /\ sleeps = gets - 1
    /\ (unit = "run" /\ gets >= 1 /\ NoStatusField)
       => Returned /\ ReturnsBody /\ sleeps = gets - 1
    /\ (unit = "run" /\ posts = 1 /\ gets = 0 /\ response.exc = NoExc
          /\ (NoStatusField \/ ~HasId))
       => pc = "done"

\* poll returned, with code 0, a body that has neither status nor "error"
C19_Witness ==
    /\ unit = "poll" /\ ~single_query /\ pc = "done"
    /\ gets = 2 /\ NoStatusField
    /\ ret.status = 0 /\ ReturnsBody /\ ~ErrorShaped

=============================================================================
